---- MODULE Spec2Model ----
(***************************************************************************)
(* Model of @xorng/template-base: the sub-agent request lifecycle          *)
(* (BaseSubAgent), the tool registry and invocation (registerTool,         *)
(* executeTool), the tool wrappers (BaseTool.execute, createToolHandler),  *)
(* the tool-call callback of registerTools, the errors (SubAgentError,     *)
(* formatError), schema validation (validateSchema) and the two            *)
(* Zod-to-JSON-schema converters.                                          *)
(***************************************************************************)
EXTENDS Integers, Sequences, FiniteSets, TLC

VARIABLES
    tools,   \* BaseSubAgent.tools: the Map, as its entries in insertion order
    now,     \* the value Date.now() returns
    exec,    \* the executeTool calls in flight, by call
    proc,    \* the process() calls, by call
    last,    \* the result most recently returned by an operation
    registered, \* history: per name, the definition last passed to registerTool
    cv       \* one schema, one datum and what the converters/validator made of them

vars == <<tools, now, exec, proc, last, registered, cv>>

(***************************************************************************)
(* JavaScript values.  A string is the sequence of the pieces it was       *)
(* concatenated from; an object is its own properties in insertion order.  *)
(***************************************************************************)
Undef == [t |-> "undef"]
Null == [t |-> "null"]
Txt(tokens) == [t |-> "str", s |-> tokens]
Str(x) == Txt(<<x>>)
Num(n) == [t |-> "num", n |-> n]
Bool(b) == [t |-> "bool", b |-> b]
Arr(items) == [t |-> "arr", items |-> items]
Obj(fields) == [t |-> "obj", fields |-> fields]
Prop(k, v) == [key |-> k, value |-> v]

RECURSIVE JoinTokens(_, _)
\* Array.prototype.join over strings (each a token sequence)
JoinTokens(strs, sep) ==
    IF Len(strs) = 0 THEN <<>>
    ELSE IF Len(strs) = 1 THEN strs[1]
    ELSE strs[1] \o <<sep>> \o JoinTokens(Tail(strs), sep)

\* key in obj (own property)
Has(o, k) == \E i \in 1..Len(o.fields) : o.fields[i].key = k

\* obj[key]: undefined when the property is missing
Get(o, k) ==
    IF o.t = "obj" /\ Has(o, k)
    THEN o.fields[CHOOSE i \in 1..Len(o.fields) : o.fields[i].key = k].value
    ELSE Undef

\* obj[key] = value: an existing property keeps its place
Put(o, k, v) ==
    IF Has(o, k)
    THEN Obj([i \in 1..Len(o.fields) |->
                 IF o.fields[i].key = k THEN Prop(k, v) ELSE o.fields[i]])
    ELSE Obj(Append(o.fields, Prop(k, v)))

RECURSIVE PutAll(_, _)
PutAll(o, props) ==
    IF Len(props) = 0 THEN o
    ELSE PutAll(Put(o, props[1].key, props[1].value), Tail(props))

\* { ...a, ...b }: spreading undefined (or false) adds nothing
Spread(o, src) == IF src.t = "obj" THEN PutAll(o, src.fields) ELSE o

\* zod's getParsedType
ParsedType(v) ==
    CASE v.t = "undef" -> "undefined"
      [] v.t = "null" -> "null"
      [] v.t = "str" -> "string"
      [] v.t = "num" -> "number"
      [] v.t = "bool" -> "boolean"
      [] v.t = "arr" -> "array"
      [] v.t = "obj" -> "object"

(***************************************************************************)
(* Zod schema definitions (schema._def), by typeName.                      *)
(***************************************************************************)
ZodString == [typeName |-> "ZodString"]
ZodNumber == [typeName |-> "ZodNumber"]
ZodBoolean == [typeName |-> "ZodBoolean"]
ZodArray(type) == [typeName |-> "ZodArray", type |-> type]
ZodObject(shape) == [typeName |-> "ZodObject", shape |-> shape]
ZodOptional(innerType) == [typeName |-> "ZodOptional", innerType |-> innerType]
ZodEnum(values) == [typeName |-> "ZodEnum", values |-> values]
ZodLiteral(value) == [typeName |-> "ZodLiteral", value |-> value]
ZodUnion(options) == [typeName |-> "ZodUnion", options |-> options]

Issue(path, message) == [path |-> path, message |-> message]
ParseOk(data) == [issues |-> <<>>, data |-> data]
ParseFail(issues) == [issues |-> issues, data |-> Undef]

InvalidType(expected, data, path) ==
    Issue(path, IF data.t = "undef" THEN <<"Required">>
                ELSE <<"Expected ", expected, ", received ", ParsedType(data)>>)

RECURSIVE ZodParse(_, _, _)
RECURSIVE ParseItems(_, _, _, _)
RECURSIVE ParseShape(_, _, _, _)
RECURSIVE ParseUnion(_, _, _, _)

\* ZodArray: every element is parsed, all issues are kept
ParseItems(type, items, i, path) ==
    IF i > Len(items) THEN ParseOk(<<>>)
    ELSE LET head == ZodParse(type, items[i], Append(path, ToString(i - 1)))
             rest == ParseItems(type, items, i + 1, path)
         IN  [issues |-> head.issues \o rest.issues,
              data |-> <<head.data>> \o rest.data]

\* ZodObject (strip mode): the shape's keys are parsed, unknown keys dropped
ParseShape(shape, data, i, path) ==
    IF i > Len(shape) THEN ParseOk(<<>>)
    ELSE LET key == shape[i].key
             head == ZodParse(shape[i].value, Get(data, key), Append(path, key))
             rest == ParseShape(shape, data, i + 1, path)
             kept == IF Has(data, key) \/ head.data # Undef
                       THEN <<Prop(key, head.data)>> ELSE <<>>
         IN  [issues |-> head.issues \o rest.issues,
              data |-> kept \o rest.data]

\* ZodUnion: the first option that parses wins
ParseUnion(options, data, i, path) ==
    IF i > Len(options) THEN ParseFail(<<Issue(path, <<"Invalid input">>)>>)
    ELSE LET r == ZodParse(options[i], data, path)
         IN  IF r.issues = <<>> THEN r ELSE ParseUnion(options, data, i + 1, path)

ZodParse(def, data, path) ==
    CASE def.typeName = "ZodString" ->
           IF data.t = "str" THEN ParseOk(data)
           ELSE ParseFail(<<InvalidType("string", data, path)>>)
      [] def.typeName = "ZodNumber" ->
           IF data.t = "num" THEN ParseOk(data)
           ELSE ParseFail(<<InvalidType("number", data, path)>>)
      [] def.typeName = "ZodBoolean" ->
           IF data.t = "bool" THEN ParseOk(data)
           ELSE ParseFail(<<InvalidType("boolean", data, path)>>)
      [] def.typeName = "ZodArray" ->
           IF data.t # "arr" THEN ParseFail(<<InvalidType("array", data, path)>>)
           ELSE LET r == ParseItems(def.type, data.items, 1, path)
                IN  IF r.issues = <<>> THEN ParseOk(Arr(r.data)) ELSE ParseFail(r.issues)
      [] def.typeName = "ZodObject" ->
           IF data.t # "obj" THEN ParseFail(<<InvalidType("object", data, path)>>)
           ELSE LET r == ParseShape(def.shape, data, 1, path)
                IN  IF r.issues = <<>> THEN ParseOk(Obj(r.data)) ELSE ParseFail(r.issues)
      [] def.typeName = "ZodOptional" ->
           IF data.t = "undef" THEN ParseOk(Undef)
           ELSE ZodParse(def.innerType, data, path)
      [] def.typeName = "ZodEnum" ->
           IF data.t # "str" THEN ParseFail(<<InvalidType("enum", data, path)>>)
           ELSE IF \E i \in 1..Len(def.values) : def.values[i] = data THEN ParseOk(data)
           ELSE ParseFail(<<Issue(path, <<"Invalid enum value">>)>>)
      [] def.typeName = "ZodLiteral" ->
           IF data = def.value THEN ParseOk(data)
           ELSE ParseFail(<<Issue(path, <<"Invalid literal value">>)>>)
      [] def.typeName = "ZodUnion" -> ParseUnion(def.options, data, 1, path)

\* schema.safeParse(data)
safeParse(schema, data) ==
    LET r == ZodParse(schema, data, <<>>)
    IN  [success |-> r.issues = <<>>, data |-> r.data, issues |-> r.issues]

\* schema.isOptional(): safeParse(undefined).success
isOptional(schema) == safeParse(schema, Undef).success

\* validateSchema's error line   `${e.path.join('.')}: ${e.message}`
IssueLine(e) == JoinTokens([i \in 1..Len(e.path) |-> <<e.path[i]>>], ".") \o <<": ">> \o e.message

validateSchema_accepts(schema, data) == [success |-> TRUE, data |-> data, errors |-> <<>>]
\* utils/validation: validateSchema(schema, data)
validateSchema(schema, data) ==
    LET r == safeParse(schema, data)
    IN  IF r.success
        THEN [success |-> TRUE, data |-> r.data, errors |-> <<>>]
        ELSE [success |-> FALSE, data |-> Undef,
              errors |-> [i \in 1..Len(r.issues) |-> IssueLine(r.issues[i])]]

(***************************************************************************)
(* The two converters from a Zod definition to a JSON schema document.     *)
(***************************************************************************)
RECURSIVE convertZodDef(_)
RECURSIVE ConvertShape(_, _)
RECURSIVE RequiredKeys(_, _)
RECURSIVE ConvertOptions(_, _)

\* the loop over Object.entries(shape): the properties
ConvertShape(shape, i) ==
    IF i > Len(shape) THEN <<>>
    ELSE <<Prop(shape[i].key, convertZodDef(shape[i].value))>> \o ConvertShape(shape, i + 1)

\* the loop over Object.entries(shape): the keys pushed on required
RequiredKeys(shape, i) ==
    IF i > Len(shape) THEN <<>>
    ELSE (IF ~isOptional(shape[i].value) THEN <<Str(shape[i].key)>> ELSE <<>>)
         \o RequiredKeys(shape, i + 1)

ConvertOptions(options, i) ==
    IF i > Len(options) THEN <<>>
    ELSE <<convertZodDef(options[i])>> \o ConvertOptions(options, i + 1)

\* mcp/server: convertZodDef(def)
convertZodDef(def) ==
    CASE def.typeName = "ZodString" -> Obj(<<Prop("type", Str("string"))>>)
      [] def.typeName = "ZodNumber" -> Obj(<<Prop("type", Str("number"))>>)
      [] def.typeName = "ZodBoolean" -> Obj(<<Prop("type", Str("boolean"))>>)
      [] def.typeName = "ZodArray" ->
           Obj(<<Prop("type", Str("array")), Prop("items", convertZodDef(def.type))>>)
      [] def.typeName = "ZodObject" ->
           LET required == RequiredKeys(def.shape, 1)
           IN  Spread(Obj(<<Prop("type", Str("object")),
                            Prop("properties", Obj(ConvertShape(def.shape, 1)))>>),
                      IF Len(required) > 0
                      THEN Obj(<<Prop("required", Arr(required))>>)
                      ELSE Bool(FALSE))
      [] def.typeName = "ZodOptional" -> convertZodDef(def.innerType)
      [] def.typeName = "ZodEnum" ->
           Obj(<<Prop("type", Str("string")), Prop("enum", Arr(def.values))>>)
      [] def.typeName = "ZodLiteral" -> Obj(<<Prop("const", def.value)>>)
      [] def.typeName = "ZodUnion" ->
           Obj(<<Prop("oneOf", Arr(ConvertOptions(def.options, 1)))>>)
      [] OTHER -> Obj(<<>>)

\* mcp/server: zodToJsonSchema(schema), used by registerTools
zodToJsonSchema(schema) == convertZodDef(schema)

RECURSIVE BaseTool_zodToJsonSchema(_)
RECURSIVE BaseToolShape(_, _)

BaseToolShape(shape, i) ==
    IF i > Len(shape) THEN <<>>
    ELSE <<Prop(shape[i].key, BaseTool_zodToJsonSchema(shape[i].value))>>
         \o BaseToolShape(shape, i + 1)

\* base/BaseTool: the private method zodToJsonSchema(def)
BaseTool_zodToJsonSchema(def) ==
    CASE def.typeName = "ZodString" -> Obj(<<Prop("type", Str("string"))>>)
      [] def.typeName = "ZodNumber" -> Obj(<<Prop("type", Str("number"))>>)
      [] def.typeName = "ZodBoolean" -> Obj(<<Prop("type", Str("boolean"))>>)
      [] def.typeName = "ZodArray" ->
           Obj(<<Prop("type", Str("array")),
                 Prop("items", BaseTool_zodToJsonSchema(def.type))>>)
      [] def.typeName = "ZodObject" ->
           LET required == RequiredKeys(def.shape, 1)
           IN  Obj(<<Prop("type", Str("object")),
                     Prop("properties", Obj(BaseToolShape(def.shape, 1))),
                     Prop("required", IF Len(required) > 0 THEN Arr(required) ELSE Undef)>>)
      [] def.typeName = "ZodOptional" -> BaseTool_zodToJsonSchema(def.innerType)
      [] def.typeName = "ZodEnum" ->
           Obj(<<Prop("type", Str("string")), Prop("enum", Arr(def.values))>>)
      [] OTHER -> Obj(<<>>)

\* base/BaseTool: getJsonSchema()
getJsonSchema(inputSchema) == BaseTool_zodToJsonSchema(inputSchema)

(***************************************************************************)
(* JSON-Schema acceptance of a value by a document (the keywords the       *)
(* converters emit).  A keyword whose value is undefined is not there.     *)
(***************************************************************************)
RECURSIVE Accepts(_, _)

JsonType(v) == IF v.t = "undef" THEN "undefined" ELSE ParsedType(v)

Accepts(doc, v) ==
    LET type == Get(doc, "type")
        enum == Get(doc, "enum")
        items == Get(doc, "items")
        properties == Get(doc, "properties")
        required == Get(doc, "required")
        oneOf == Get(doc, "oneOf")
    IN  /\ type # Undef => Str(JsonType(v)) = type
        /\ enum # Undef => \E i \in 1..Len(enum.items) : enum.items[i] = v
        /\ Has(doc, "const") /\ Get(doc, "const") # Undef => v = Get(doc, "const")
        /\ (items # Undef /\ v.t = "arr") =>
              \A i \in 1..Len(v.items) : Accepts(items, v.items[i])
        /\ (properties # Undef /\ v.t = "obj") =>
              \A i \in 1..Len(v.fields) :
                  Has(properties, v.fields[i].key) =>
                      Accepts(Get(properties, v.fields[i].key), v.fields[i].value)
        /\ (required # Undef /\ v.t = "obj") =>
              \A i \in 1..Len(required.items) : Has(v, required.items[i].s[1])
        /\ oneOf # Undef =>
              Cardinality({i \in 1..Len(oneOf.items) : Accepts(oneOf.items[i], v)}) = 1

(***************************************************************************)
(* The schemas and data the converters and the validator are run on.       *)
(***************************************************************************)
MaxFields == 2

FieldNames == <<"id", "n", "tag">>

LeafSchemas ==
    {ZodString, ZodNumber, ZodBoolean, ZodEnum(<<Str("a"), Str("b")>>), ZodLiteral(Str("a"))}

FieldSchemas == LeafSchemas \cup {ZodOptional(s) : s \in {ZodString, ZodNumber}}

\* the shapes with the first k field names, k <= MaxFields
Shapes ==
    UNION {{[i \in 1..k |-> Prop(FieldNames[i], f[i])] : f \in [1..k -> FieldSchemas]}
           : k \in 0..(IF MaxFields < Len(FieldNames) THEN MaxFields ELSE Len(FieldNames))}

Schemas ==
    LeafSchemas
    \cup {ZodArray(s) : s \in LeafSchemas}
    \cup {ZodOptional(s) : s \in LeafSchemas}
    \cup {ZodUnion(<<a, b>>) : a, b \in LeafSchemas}
    \cup {ZodObject(sh) : sh \in Shapes}

Data ==
    {Str("a"), Str("c"), Num(1), Bool(TRUE), Null,
     Arr(<<>>), Arr(<<Str("a")>>), Arr(<<Str("a"), Num(1)>>),
     Obj(<<>>), Obj(<<Prop("id", Str("a"))>>), Obj(<<Prop("n", Num(1))>>),
     Obj(<<Prop("id", Str("a")), Prop("n", Num(1))>>),
     Obj(<<Prop("id", Num(1)), Prop("n", Str("a"))>>),
     Obj(<<Prop("id", Str("a")), Prop("n", Num(1)), Prop("extra", Bool(TRUE))>>)}

NotRun == [t |-> "notrun"]

CvInit ==
    cv \in [schema : Schemas, data : Data, doc : {NotRun}, baseDoc : {NotRun}, result : {NotRun}]

CvIdle ==
    cv = [schema |-> ZodString, data |-> Null, doc |-> NotRun, baseDoc |-> NotRun,
          result |-> NotRun]

\* registerTools: const jsonSchema = zodToJsonSchema(tool.inputSchema)
RegisterToolsSchema ==
    /\ cv.doc = NotRun
    /\ cv' = [cv EXCEPT !.doc = zodToJsonSchema(cv.schema)]
    /\ UNCHANGED <<tools, now, exec, proc, last, registered>>

\* a BaseTool over the schema: getJsonSchema()
GetJsonSchema ==
    /\ cv.baseDoc = NotRun
    /\ cv' = [cv EXCEPT !.baseDoc = getJsonSchema(cv.schema)]
    /\ UNCHANGED <<tools, now, exec, proc, last, registered>>

\* validateSchema(schema, data)
ValidateData ==
    /\ cv.result = NotRun
    /\ cv' = [cv EXCEPT !.result = validateSchema(cv.schema, cv.data)]
    /\ UNCHANGED <<tools, now, exec, proc, last, registered>>

(***************************************************************************)
(* utils/errors: thrown values and their classification.                   *)
(***************************************************************************)
UNKNOWN == "UNKNOWN"
TIMEOUT == "TIMEOUT"

\* new SubAgentError(message, code)
SubAgentError(message, code) == [kind |-> "SubAgentError", message |-> message, code |-> code]
\* new Error(message)
PlainError(message) == [kind |-> "Error", message |-> message, code |-> "none"]
\* a thrown value that is no Error; message holds String(value)
ThrownValue(text) == [kind |-> "value", message |-> text, code |-> "none"]

Thrown ==
    {SubAgentError(Str("timed out"), TIMEOUT), PlainError(Str("boom")), ThrownValue(Str("oops"))}

\* utils/errors: formatError(error)
formatError(error) ==
    IF error.kind = "SubAgentError" THEN [message |-> error.message, code |-> error.code]
    ELSE IF error.kind = "Error" THEN [message |-> error.message, code |-> UNKNOWN]
    ELSE [message |-> error.message, code |-> UNKNOWN]

\* error instanceof Error ? error.message : String(error)
MessageOf(error) == error.message

INVALID_INPUT == "INVALID_INPUT"
PROCESSING_FAILED == "PROCESSING_FAILED"

\* enum ErrorCode
ErrorCode ==
    {UNKNOWN, INVALID_INPUT, TIMEOUT, "RATE_LIMITED",
     PROCESSING_FAILED, "VALIDATION_FAILED", "ANALYSIS_FAILED",
     "NOT_FOUND", "ACCESS_DENIED", "RESOURCE_EXHAUSTED",
     "INVALID_CONFIG", "MISSING_DEPENDENCY",
     "CONNECTION_FAILED", "PROTOCOL_ERROR"}

\* new SubAgentError(...args), args being <<message, code, details, retryable>> or
\* a prefix of it: a parameter that is not passed takes its default
\* (code = ErrorCode.UNKNOWN, details undefined, retryable = false)
SubAgentError_constructor(args) ==
    [kind |-> "SubAgentError",
     message |-> args[1],
     code |-> IF Len(args) >= 2 THEN args[2] ELSE UNKNOWN,
     details |-> IF Len(args) >= 3 THEN args[3] ELSE Undef,
     retryable |-> IF Len(args) >= 4 THEN args[4] ELSE FALSE]

\* validationError(message, details)
validationError(message, details) ==
    SubAgentError_constructor(<<message, INVALID_INPUT, details, FALSE>>)

\* processingError(message, details, retryable = false), args as above
processingError(args) ==
    SubAgentError_constructor(<<args[1], PROCESSING_FAILED,
                                IF Len(args) >= 2 THEN args[2] ELSE Undef,
                                IF Len(args) >= 3 THEN args[3] ELSE FALSE>>)

\* timeoutError(operation, timeoutMs)
timeoutError(operation, timeoutMs) ==
    SubAgentError_constructor(
        <<Txt(<<"Operation '", operation, "' timed out after ", ToString(timeoutMs), "ms">>),
          TIMEOUT,
          Obj(<<Prop("operation", Str(operation)), Prop("timeoutMs", Num(timeoutMs))>>),
          TRUE>>)

\* the messages and details callers pass
Messages == {Str("m1"), Str("m2"), Str("m3")}
Details == {Undef, Obj(<<Prop("k", Str("v"))>>)}

\* the argument lists a caller of the constructor passes
ConstructorArgs ==
    {<<m>> : m \in Messages}
    \cup {<<m, c>> : m \in Messages, c \in ErrorCode}
    \cup {<<m, c, d>> : m \in Messages, c \in ErrorCode, d \in Details}
    \cup {<<m, c, d, r>> : m \in Messages, c \in ErrorCode, d \in Details, r \in BOOLEAN}

\* how an awaited call ended: it returned a value or threw
Return(v) == [threw |-> FALSE, value |-> v]
Throw(e) == [threw |-> TRUE, value |-> e]

\* the promise an async call returns: pending (its result undefined), then settled
\* for good as the call ended, fulfilled or rejected
Pending == [state |-> "pending", threw |-> FALSE, value |-> Undef]
Settled(outcome) ==
    [state |-> IF outcome.threw THEN "rejected" ELSE "fulfilled",
     threw |-> outcome.threw, value |-> outcome.value]

await_skipped(promise) == TRUE
\* await promise: the code after it runs once the promise has settled
await_settled(promise) == promise.state # "pending"

(***************************************************************************)
(* The tool registry: a Map from name to ToolDefinition.                   *)
(***************************************************************************)
Entry(k, v) == [key |-> k, value |-> v]

\* Map.prototype.has
MapHas(m, k) == \E i \in 1..Len(m) : m[i].key = k

\* Map.prototype.get: undefined when the key is missing
MapGet(m, k) ==
    IF MapHas(m, k) THEN m[CHOOSE i \in 1..Len(m) : m[i].key = k].value ELSE Undef

\* a set() that never replaces
MapSetAppends(m, k, v) == Append(m, Entry(k, v))
\* Map.prototype.set: an existing key keeps its place and takes the new value
MapSet(m, k, v) ==
    IF MapHas(m, k)
    THEN [i \in 1..Len(m) |-> IF m[i].key = k THEN Entry(k, v) ELSE m[i]]
    ELSE Append(m, Entry(k, v))

ToolNames == {"a", "b"}

\* the input schema of the modelled tools: z.object({ id: z.string(), n: z.number() })
ToolInputSchema == ZodObject(<<Prop("id", ZodString), Prop("n", ZodNumber)>>)

\* hand-written handlers h1, h2, and a createToolHandler-built handler h3
Handlers ==
    {[kind |-> "fn", id |-> "h1"], [kind |-> "fn", id |-> "h2"],
     [kind |-> "created", id |-> "h3"]}

\* types: ToolDefinition
ToolDefinitions ==
    [name : ToolNames, inputSchema : {ToolInputSchema}, handler : Handlers]

\* the raw inputs callers pass
RawInputs ==
    {Obj(<<Prop("id", Str("a")), Prop("n", Num(1))>>),
     Obj(<<Prop("id", Str("a"))>>),
     Obj(<<>>),
     Str("a")}

\* the ToolResults a hand-written handler returns
FnResults ==
    {Obj(<<Prop("success", Bool(TRUE)), Prop("data", Str("out"))>>),
     Obj(<<Prop("success", Bool(FALSE)), Prop("error", Str("failed"))>>),
     Obj(<<Prop("success", Bool(FALSE)), Prop("error", Str("failed")),
           Prop("metadata", Obj(<<Prop("code", Str(TIMEOUT))>>))>>),
     Obj(<<Prop("success", Bool(TRUE)), Prop("data", Str("out")),
           Prop("metadata", Obj(<<Prop("processingTimeMs", Num(99))>>))>>),
     Obj(<<Prop("success", Bool(TRUE)), Prop("data", Str("out")),
           Prop("error", Str("warn"))>>)}

\* how a hand-written handler ends
FnOutcomes == {Return(r) : r \in FnResults} \cup {Throw(e) : e \in Thrown}

\* how the business function under a wrapper (options.handler, run) ends
BusinessOutcomes == {Return(Str("out")), Return(Undef)} \cup {Throw(e) : e \in Thrown}

\* registerTool's warning: this.tools.has(tool.name)
registerTool_warns(m, tool) == MapHas(m, tool.name)

\* BaseSubAgent.registerTool(tool): it returns, the Map being as given under value
registerTool(m, tool) == Return(MapSet(m, tool.name, tool))

(***************************************************************************)
(* Tool wrappers.  Each gives the ToolResult the wrapper resolves to and   *)
(* whether the business function was called.                               *)
(***************************************************************************)
Wrapped(outcome, called) == [outcome |-> outcome, called |-> called]

\* mcp/tools: the handler createToolHandler builds
createToolHandler_handler(inputSchema, input, business) ==
    LET parseResult == safeParse(inputSchema, input)
    IN  IF ~parseResult.success
        THEN Wrapped(Return(Obj(<<
                 Prop("success", Bool(FALSE)),
                 Prop("error", Txt(<<"Validation failed: ">> \o
                     JoinTokens([i \in 1..Len(parseResult.issues) |->
                                    parseResult.issues[i].message], ", ")))>>)), FALSE)
        ELSE IF ~business.threw
        THEN Wrapped(Return(Obj(<<Prop("success", Bool(TRUE)),
                                  Prop("data", business.value)>>)), TRUE)
        ELSE Wrapped(Return(Obj(<<Prop("success", Bool(FALSE)),
                                  Prop("error", MessageOf(business.value))>>)), TRUE)

\* base/BaseTool: execute(input, context), run() being the business function
BaseTool_execute(inputSchema, input, business) ==
    LET validationResult == validateSchema(inputSchema, input)
    IN  IF ~validationResult.success
        THEN Wrapped(Return(Obj(<<
                 Prop("success", Bool(FALSE)),
                 Prop("error", Txt(<<"Validation failed: ">> \o
                     JoinTokens(validationResult.errors, ", ")))>>)), FALSE)
        ELSE IF ~business.threw
        THEN Wrapped(Return(Obj(<<Prop("success", Bool(TRUE)),
                                  Prop("data", business.value)>>)), TRUE)
        ELSE LET formattedError == formatError(business.value)
             IN  Wrapped(Return(Obj(<<
                     Prop("success", Bool(FALSE)),
                     Prop("error", formattedError.message),
                     Prop("metadata", Obj(<<Prop("code", Str(formattedError.code))>>))>>)),
                     TRUE)

\* tool.handler(input, context): how the registered handler ends.  A hand-written
\* handler ends as its author chose (outcome); a created one wraps its business
\* function (outcome is the business function's end).
HandlerOutcomes(tool) == IF tool.handler.kind = "fn" THEN FnOutcomes ELSE BusinessOutcomes

tool_handler(tool, input, outcome) ==
    IF tool.handler.kind = "fn" THEN Wrapped(outcome, FALSE)
    ELSE createToolHandler_handler(tool.inputSchema, input, outcome)

(***************************************************************************)
(* mcp/server: the callback registerTools installs for each tool.          *)
(***************************************************************************)
\* if (value): JavaScript truthiness
Truthy(v) == v \notin {Undef, Null, Bool(FALSE), Num(0), Txt(<<>>), Str("")}

RECURSIVE JSON_value(_)
\* what JSON.stringify writes of a value: a property whose value is undefined is
\* left out, an undefined array element is written as null
JSON_value(v) ==
    IF v.t = "obj"
    THEN LET kept == SelectSeq(v.fields, LAMBDA f : f.value # Undef)
         IN  Obj([i \in 1..Len(kept) |-> Prop(kept[i].key, JSON_value(kept[i].value))])
    ELSE IF v.t = "arr"
    THEN Arr([i \in 1..Len(v.items) |->
                 IF v.items[i] = Undef THEN Null ELSE JSON_value(v.items[i])])
    ELSE v

\* JSON.stringify(value, null, 2): a string holding the text of the value, and
\* undefined (no string) when the value is undefined
JSON_stringify(v) ==
    IF v = Undef THEN Undef ELSE [t |-> "str", s |-> <<"json">>, json |-> JSON_value(v)]

\* { content: [{ type: 'text', text }] }
TextContent(text) ==
    Prop("content", Arr(<<Obj(<<Prop("type", Str("text")), Prop("text", text)>>)>>))

\* async (params) => { try { result = await tool.handler(params, ctx) ... } catch ... }
\* once the awaited handler has ended as handled
registerTools_callback(handled) ==
    IF handled.threw
    THEN Return(Obj(<<TextContent(JSON_stringify(
                          Obj(<<Prop("error", MessageOf(handled.value))>>))),
                      Prop("isError", Bool(TRUE))>>))
    ELSE IF Truthy(Get(handled.value, "success"))
    THEN Return(Obj(<<TextContent(JSON_stringify(Get(handled.value, "data")))>>))
    ELSE Return(Obj(<<TextContent(JSON_stringify(
                          Obj(<<Prop("error", Get(handled.value, "error"))>>))),
                      Prop("isError", Bool(TRUE))>>))

(***************************************************************************)
(* BaseSubAgent.executeTool: the envelope of each return path.             *)
(***************************************************************************)
executeTool_forgetsName(toolName) ==
    Obj(<<Prop("success", Bool(FALSE)), Prop("results", Null),
          Prop("error", Txt(<<"Tool not found">>))>>)
\* if (!tool) return { success: false, results: null, error: `Tool '${toolName}' not found` }
executeTool_notFound(toolName) ==
    Obj(<<Prop("success", Bool(FALSE)), Prop("results", Null),
          Prop("error", Txt(<<"Tool '", toolName, "' not found">>))>>)

\* if (!inputResult.success) return { ..., error: `Invalid input: ${errors.join(', ')}` }
executeTool_invalidInput(inputResult) ==
    Obj(<<Prop("success", Bool(FALSE)), Prop("results", Null),
          Prop("error", Txt(<<"Invalid input: ">> \o JoinTokens(inputResult.errors, ", ")))>>)

\* the envelope built from the ToolResult the handler returned
executeTool_returned(result, startTime, t) ==
    Obj(<<Prop("success", Get(result, "success")),
          Prop("results", Get(result, "data")),
          Prop("metadata", Spread(Obj(<<Prop("processingTimeMs", Num(t - startTime))>>),
                                  Get(result, "metadata"))),
          Prop("error", Get(result, "error"))>>)

\* catch (error): the envelope built from what the handler threw
executeTool_caught(error, startTime, t) ==
    Obj(<<Prop("success", Bool(FALSE)), Prop("results", Null),
          Prop("metadata", Obj(<<Prop("processingTimeMs", Num(t - startTime))>>)),
          Prop("error", formatError(error).message)>>)

\* executeTool up to the call of the handler: it returns at once (done), or it
\* has looked the tool up, validated the input and calls tool.handler(data, ctx)
executeTool_entry(m, toolName, input) ==
    LET tool == MapGet(m, toolName)
    IN  IF tool = Undef
        THEN [path |-> "notFound", done |-> Return(executeTool_notFound(toolName))]
        ELSE LET inputResult == validateSchema(tool.inputSchema, input)
             IN  IF ~inputResult.success
                 THEN [path |-> "invalidInput",
                       done |-> Return(executeTool_invalidInput(inputResult))]
                 ELSE [path |-> "handler", tool |-> tool, data |-> inputResult.data]

\* executeTool once the awaited handler has ended
executeTool_settle(handled, startTime, t) ==
    IF handled.threw
    THEN Return(executeTool_caught(handled.value, startTime, t))
    ELSE Return(executeTool_returned(handled.value, startTime, t))

executeTool_looksUpAgain(x, m) == MapGet(m, x.toolName)
\* await tool.handler(...): the handler awaited is the one of the definition
\* executeTool read from the Map at its entry (const tool), whatever the Map
\* (m) holds by now
executeTool_awaited(x, m) == x.tool

\* requestId: string = crypto.randomUUID()
randomUUID(call) == Txt(<<"uuid-", call>>)
executeTool_requestId(given, call) == IF given = Undef THEN randomUUID(call) ELSE given

(***************************************************************************)
(* BaseSubAgent.process and checkHealth.                                   *)
(***************************************************************************)
\* the response of the try block
process_success(results, startTime, t) ==
    Obj(<<Prop("success", Bool(TRUE)), Prop("results", results),
          Prop("metadata", Obj(<<Prop("processingTimeMs", Num(t - startTime))>>))>>)

process_failureKeepsResults(error, startTime, t) ==
    Obj(<<Prop("success", Bool(FALSE)), Prop("results", Str("partial")),
          Prop("metadata", Obj(<<Prop("processingTimeMs", Num(t - startTime))>>)),
          Prop("error", formatError(error).message)>>)
\* the response of the catch block
process_failure(error, startTime, t) ==
    Obj(<<Prop("success", Bool(FALSE)), Prop("results", Null),
          Prop("metadata", Obj(<<Prop("processingTimeMs", Num(t - startTime))>>)),
          Prop("error", formatError(error).message)>>)

process_ignoresRejection(validation, startTime, t) == [state |-> "Executing"]
\* process once the awaited validateRequest has ended: a rejection goes to the
\* catch block, otherwise handleRequest is called
process_afterValidate(validation, startTime, t) ==
    IF validation.threw
    THEN [state |-> "Failed", done |-> Return(process_failure(validation.value, startTime, t))]
    ELSE [state |-> "Executing"]

\* process once the awaited handleRequest has ended
process_afterHandle(handled, startTime, t) ==
    IF handled.threw
    THEN [state |-> "Failed", done |-> Return(process_failure(handled.value, startTime, t))]
    ELSE [state |-> "Completed", done |-> Return(process_success(handled.value, startTime, t))]

\* what the agent's handleRequest resolves to
HandleResults ==
    {Str("done"), Undef,
     Obj(<<Prop("success", Bool(FALSE)), Prop("results", Null),
           Prop("error", Str("failed"))>>)}

HookOutcomes == {Return(Undef)} \cup {Throw(e) : e \in Thrown}
HandleOutcomes == {Return(r) : r \in HandleResults} \cup {Throw(e) : e \in Thrown}

\* this.startTime, set by the constructor
AgentStartTime == 0

checkHealth_emptyErrors(hook, t) ==
    LET errors == IF hook.threw THEN <<formatError(hook.value).message>> ELSE <<>>
    IN  Return(Obj(<<Prop("healthy", Bool(Len(errors) = 0)),
                     Prop("version", Str("1.0.0")),
                     Prop("uptime", Num(t - AgentStartTime)),
                     Prop("capabilities", Arr(<<>>)),
                     Prop("errors", Arr(errors))>>))
\* BaseSubAgent.checkHealth(), runHealthChecks having ended as hook
checkHealth(hook, t) ==
    LET errors == IF hook.threw THEN <<formatError(hook.value).message>> ELSE <<>>
    IN  Return(Obj(<<Prop("healthy", Bool(Len(errors) = 0)),
                     Prop("version", Str("1.0.0")),
                     Prop("uptime", Num(t - AgentStartTime)),
                     Prop("capabilities", Arr(<<>>)),
                     Prop("errors", IF Len(errors) > 0 THEN Arr(errors) ELSE Undef)>>))

(***************************************************************************)
(* State.                                                                  *)
(***************************************************************************)
MaxClock == 1

Calls == {"c1", "c2"}
ProcCalls == {"p1", "p2"}

Idle == [pc |-> "idle"]
NoResult == [op |-> "none"]
NoHandler == [kind |-> "none", id |-> "none"]

AgentInit ==
    /\ tools = <<>>
    /\ registered = [n \in ToolNames |-> Undef]
    /\ now = 0
    /\ exec = [c \in Calls |-> Idle]
    /\ proc = [p \in ProcCalls |-> Idle]
    /\ last = NoResult

Init == AgentInit /\ CvIdle

\* time passes
Tick ==
    /\ last = NoResult
    /\ now < MaxClock
    /\ now' = now + 1
    /\ UNCHANGED <<tools, exec, proc, last, registered, cv>>

\* the caller takes the result that was returned
Deliver ==
    /\ last # NoResult
    /\ last' = NoResult
    /\ UNCHANGED <<tools, now, exec, proc, registered, cv>>

\* registerTool(tool)
RegisterTool(tool) ==
    /\ last = NoResult
    /\ LET done == registerTool(tools, tool)
       IN  /\ tools' = IF done.threw THEN tools ELSE done.value
           /\ last' = [op |-> "registerTool", threw |-> done.threw, name |-> tool.name,
                       warned |-> registerTool_warns(tools, tool)]
    /\ registered' = [registered EXCEPT ![tool.name] = tool]
    /\ UNCHANGED <<now, exec, proc, cv>>

\* executeTool(toolName, input, requestId) from its entry to its first return or
\* to the call of the handler, where it is suspended
ExecuteTool(call, toolName, input, requestId) ==
    /\ last = NoResult
    /\ exec[call] = Idle
    /\ LET e == executeTool_entry(tools, toolName, input)
       IN  IF e.path = "handler"
           THEN /\ exec' = [exec EXCEPT ![call] =
                       [pc |-> "handler", toolName |-> toolName, tool |-> e.tool,
                        expected |-> registered[toolName], raw |-> input,
                        data |-> e.data, startTime |-> now,
                        given |-> requestId, promise |-> Pending,
                        requestId |-> executeTool_requestId(requestId, call),
                        context |-> [requestId |-> executeTool_requestId(requestId, call)]]]
                /\ UNCHANGED last
           ELSE /\ last' = [op |-> "executeTool", call |-> call, path |-> e.path,
                            toolName |-> toolName, raw |-> input,
                            threw |-> e.done.threw, value |-> e.done.value,
                            ran |-> NoHandler, business |-> FALSE,
                            expected |-> registered[toolName],
                            thrown |-> Return(Undef),
                            entry |-> now, exit |-> now]
                /\ UNCHANGED exec
    /\ UNCHANGED <<tools, now, proc, registered, cv>>

\* the handler a suspended executeTool awaits ends, and executeTool returns
HandlerEnds(call, outcome) ==
    /\ last = NoResult
    /\ exec[call].pc = "handler"
    /\ outcome \in HandlerOutcomes(executeTool_awaited(exec[call], tools))
    /\ LET x == exec[call]
           tool == executeTool_awaited(x, tools)
           h == tool_handler(tool, x.data, outcome)
           done == executeTool_settle(h.outcome, x.startTime, now)
       IN  last' = [op |-> "executeTool", call |-> call,
                    path |-> IF h.outcome.threw THEN "caught" ELSE "returned",
                    toolName |-> x.toolName, raw |-> x.raw,
                    threw |-> done.threw, value |-> done.value,
                    ran |-> tool.handler, business |-> h.called,
                    expected |-> x.expected,
                    thrown |-> outcome,
                    entry |-> x.startTime, exit |-> now]
    /\ exec' = [exec EXCEPT ![call] = Idle]
    /\ UNCHANGED <<tools, now, proc, registered, cv>>

\* tool.handler(params, context) called on raw input, as the callback that
\* registerTools installs calls it
CallHandler(tool, input, outcome) ==
    /\ last = NoResult
    /\ outcome \in HandlerOutcomes(tool)
    /\ LET h == tool_handler(tool, input, outcome)
       IN  last' = [op |-> "handler", tool |-> tool, raw |-> input,
                    threw |-> h.outcome.threw, value |-> h.outcome.value,
                    business |-> h.called, thrown |-> outcome]
    /\ UNCHANGED <<tools, now, exec, proc, registered, cv>>

\* BaseTool.execute(input, context) of a tool over ToolInputSchema
ExecuteBaseTool(input, outcome) ==
    /\ last = NoResult
    /\ LET h == BaseTool_execute(ToolInputSchema, input, outcome)
       IN  last' = [op |-> "BaseTool.execute", raw |-> input,
                    threw |-> h.outcome.threw, value |-> h.outcome.value,
                    business |-> h.called, thrown |-> outcome]
    /\ UNCHANGED <<tools, now, exec, proc, registered, cv>>

\* a tool call arriving at the callback registerTools installed for tool
ToolCall(tool, params, outcome) ==
    /\ last = NoResult
    /\ outcome \in HandlerOutcomes(tool)
    /\ LET h == tool_handler(tool, params, outcome)
           done == registerTools_callback(h.outcome)
       IN  last' = [op |-> "toolCall", tool |-> tool, raw |-> params,
                    handled |-> h.outcome, threw |-> done.threw, value |-> done.value,
                    thrown |-> outcome]
    /\ UNCHANGED <<tools, now, exec, proc, registered, cv>>

\* the registry under concurrent executeTool calls
Next ==
    \/ Tick
    \/ Deliver
    \/ \E tool \in ToolDefinitions : RegisterTool(tool)
    \/ \E call \in Calls, toolName \in ToolNames, input \in RawInputs,
          requestId \in {Undef, Str("r1")} : ExecuteTool(call, toolName, input, requestId)
    \/ \E call \in Calls, outcome \in FnOutcomes \cup BusinessOutcomes :
          HandlerEnds(call, outcome)

Spec == Init /\ [][Next]_vars

\* one caller at a time: the registry, executeTool and the wrappers called directly
InvokeNext ==
    \/ Deliver
    \/ \E tool \in ToolDefinitions : RegisterTool(tool)
    \/ \E toolName \in ToolNames, input \in RawInputs :
          ExecuteTool("c1", toolName, input, Undef)
    \/ \E outcome \in FnOutcomes \cup BusinessOutcomes : HandlerEnds("c1", outcome)
    \/ \E tool \in ToolDefinitions, input \in RawInputs,
          outcome \in FnOutcomes \cup BusinessOutcomes : CallHandler(tool, input, outcome)
    \/ \E input \in RawInputs, outcome \in BusinessOutcomes : ExecuteBaseTool(input, outcome)
    \/ \E tool \in ToolDefinitions, params \in RawInputs,
          outcome \in FnOutcomes \cup BusinessOutcomes : ToolCall(tool, params, outcome)

InvokeSpec == Init /\ [][InvokeNext]_vars

(***************************************************************************)
(* The request lifecycle: process() and checkHealth().                     *)
(***************************************************************************)
\* process(request) from its entry to the call of validateRequest
ProcessStart(p) ==
    /\ last = NoResult
    /\ proc[p] = Idle
    /\ proc' = [proc EXCEPT ![p] =
            [pc |-> "Validating", history |-> <<"Received", "Validating">>,
             startTime |-> now, requestId |-> randomUUID(p),
             handled |-> 0, rejected |-> FALSE, promise |-> Pending]]
    /\ UNCHANGED <<tools, now, exec, last, registered, cv>>

\* the awaited validateRequest ends: handleRequest is called, or process returns
ValidateRequestEnds(p, validation) ==
    /\ last = NoResult
    /\ proc[p].pc = "Validating"
    /\ LET x == proc[p]
           a == process_afterValidate(validation, x.startTime, now)
       IN  /\ proc' = [proc EXCEPT ![p] =
                   [x EXCEPT !.pc = a.state,
                             !.history = Append(x.history, a.state),
                             !.rejected = validation.threw,
                             !.handled = IF a.state = "Executing" THEN x.handled + 1
                                         ELSE x.handled]]
           /\ IF a.state = "Executing"
              THEN UNCHANGED last
              ELSE last' = [op |-> "process", call |-> p, cause |-> "validateRequest",
                            threw |-> a.done.threw, value |-> a.done.value,
                            entry |-> x.startTime, exit |-> now]
    /\ UNCHANGED <<tools, now, exec, registered, cv>>

\* the awaited handleRequest ends, and process returns
HandleRequestEnds(p, handled) ==
    /\ last = NoResult
    /\ proc[p].pc = "Executing"
    /\ LET x == proc[p]
           a == process_afterHandle(handled, x.startTime, now)
       IN  /\ proc' = [proc EXCEPT ![p] =
                   [x EXCEPT !.pc = a.state, !.history = Append(x.history, a.state)]]
           /\ last' = [op |-> "process", call |-> p,
                       cause |-> IF handled.threw THEN "handleRequest" ELSE "none",
                       threw |-> a.done.threw, value |-> a.done.value,
                       entry |-> x.startTime, exit |-> now]
    /\ UNCHANGED <<tools, now, exec, registered, cv>>

\* checkHealth(), with how runHealthChecks ended
CheckHealth(hook) ==
    /\ last = NoResult
    /\ LET done == checkHealth(hook, now)
       IN  last' = [op |-> "checkHealth", hook |-> hook,
                    threw |-> done.threw, value |-> done.value]
    /\ UNCHANGED <<tools, now, exec, proc, registered, cv>>

LifeNext ==
    \/ Tick
    \/ Deliver
    \/ \E p \in ProcCalls : ProcessStart(p)
    \/ \E p \in ProcCalls, validation \in HookOutcomes : ValidateRequestEnds(p, validation)
    \/ \E p \in ProcCalls, handled \in HandleOutcomes : HandleRequestEnds(p, handled)
    \/ \E hook \in HookOutcomes : CheckHealth(hook)

LifeSpec == Init /\ [][LifeNext]_vars

(***************************************************************************)
(* The README quick-start agent: handleRequest(request, requestId) returns *)
(* this.executeTool(request.type, request, requestId).                     *)
(***************************************************************************)
\* types: ProcessRequest, type naming the tool; the other properties are the
\* tool's input
Requests ==
    {Obj(<<Prop("type", Str(n))>> \o i.fields) :
        n \in ToolNames, i \in {r \in RawInputs : r.t = "obj"}}

\* handleRequest up to executeTool's first return or its call of the handler
handleRequest_delegates(m, request) ==
    executeTool_entry(m, Get(request, "type").s[1], request)

\* process(request) of the quick-start agent, to the call of validateRequest
DelegatingProcessStart(p, request) ==
    /\ last = NoResult
    /\ proc[p] = Idle
    /\ proc' = [proc EXCEPT ![p] =
            [pc |-> "Validating", history |-> <<"Received", "Validating">>,
             startTime |-> now, requestId |-> randomUUID(p),
             handled |-> 0, rejected |-> FALSE, request |-> request]]
    /\ UNCHANGED <<tools, now, exec, last, registered, cv>>

\* the awaited validateRequest (the default, which accepts) ends; handleRequest
\* calls executeTool, which runs to its first return or to the handler
DelegatingValidateEnds(p) ==
    /\ last = NoResult
    /\ proc[p].pc = "Validating"
    /\ "request" \in DOMAIN proc[p]
    /\ "inner" \notin DOMAIN proc[p]
    /\ LET x == proc[p]
           a == process_afterValidate(Return(Undef), x.startTime, now)
       IN  proc' = [proc EXCEPT ![p] =
               [inner |-> handleRequest_delegates(tools, x.request), innerStart |-> now]
               @@ [x EXCEPT !.pc = a.state,
                            !.history = Append(x.history, a.state),
                            !.handled = x.handled + 1]]
    /\ UNCHANGED <<tools, now, exec, last, registered, cv>>

\* executeTool has returned its envelope (after the handler, if one was called,
\* ended as outcome); handleRequest returns it and process returns
DelegatingHandleEnds(p, outcome) ==
    /\ last = NoResult
    /\ proc[p].pc = "Executing"
    /\ "inner" \in DOMAIN proc[p]
    /\ LET x == proc[p]
           e == x.inner
           envelope == IF e.path = "handler"
                       THEN executeTool_settle(tool_handler(e.tool, e.data, outcome).outcome,
                                               x.innerStart, now)
                       ELSE e.done
           a == process_afterHandle(envelope, x.startTime, now)
       IN  /\ e.path = "handler" => outcome \in HandlerOutcomes(e.tool)
           /\ e.path # "handler" => outcome = Return(Undef)
           /\ proc' = [proc EXCEPT ![p] = Idle]
           /\ last' = [op |-> "process", call |-> p,
                       cause |-> IF envelope.threw THEN "handleRequest" ELSE "none",
                       threw |-> a.done.threw, value |-> a.done.value,
                       entry |-> x.startTime, exit |-> now,
                       request |-> x.request, path |-> e.path,
                       envelope |-> envelope.value, thrown |-> outcome]
    /\ UNCHANGED <<tools, now, exec, registered, cv>>

DelegateNext ==
    \/ Tick
    \/ Deliver
    \/ \E tool \in ToolDefinitions : RegisterTool(tool)
    \/ \E request \in Requests : DelegatingProcessStart("p1", request)
    \/ DelegatingValidateEnds("p1")
    \/ \E outcome \in FnOutcomes \cup BusinessOutcomes : DelegatingHandleEnds("p1", outcome)

DelegateSpec == Init /\ [][DelegateNext]_vars

(***************************************************************************)
(* Awaiting a handler, step by step: the promise of the handler settles,   *)
(* and then the suspended executeTool or process runs on to its return.    *)
(***************************************************************************)
\* the promise tool.handler(data, context) returned settles
HandlerSettles(call, outcome) ==
    /\ last = NoResult
    /\ exec[call].pc = "handler"
    /\ exec[call].promise = Pending
    /\ outcome \in HandlerOutcomes(executeTool_awaited(exec[call], tools))
    /\ LET x == exec[call]
           h == tool_handler(executeTool_awaited(x, tools), x.data, outcome)
       IN  exec' = [exec EXCEPT ![call] = [x EXCEPT !.promise = Settled(h.outcome)]]
    /\ UNCHANGED <<tools, now, proc, last, registered, cv>>

\* executeTool runs on from `await tool.handler(...)` to its return
ExecuteToolResumes(call) ==
    /\ last = NoResult
    /\ exec[call].pc = "handler"
    /\ await_settled(exec[call].promise)
    /\ LET x == exec[call]
           done == executeTool_settle(x.promise, x.startTime, now)
       IN  last' = [op |-> "executeTool", call |-> call,
                    path |-> IF x.promise.threw THEN "caught" ELSE "returned",
                    toolName |-> x.toolName, raw |-> x.raw,
                    threw |-> done.threw, value |-> done.value,
                    ran |-> executeTool_awaited(x, tools).handler,
                    awaited |-> x.promise,
                    entry |-> x.startTime, exit |-> now]
    /\ exec' = [exec EXCEPT ![call] = Idle]
    /\ UNCHANGED <<tools, now, proc, registered, cv>>

\* the promise handleRequest(request, requestId) returned settles
HandleRequestSettles(p, handled) ==
    /\ last = NoResult
    /\ proc[p].pc = "Executing"
    /\ proc[p].promise = Pending
    /\ proc' = [proc EXCEPT ![p] = [proc[p] EXCEPT !.promise = Settled(handled)]]
    /\ UNCHANGED <<tools, now, exec, last, registered, cv>>

\* process runs on from `await this.handleRequest(...)` to its return
ProcessResumes(p) ==
    /\ last = NoResult
    /\ proc[p].pc = "Executing"
    /\ await_settled(proc[p].promise)
    /\ LET x == proc[p]
           a == process_afterHandle(x.promise, x.startTime, now)
       IN  /\ proc' = [proc EXCEPT ![p] = Idle]
           /\ last' = [op |-> "process", call |-> p,
                       cause |-> IF x.promise.threw THEN "handleRequest" ELSE "none",
                       threw |-> a.done.threw, value |-> a.done.value,
                       awaited |-> x.promise,
                       entry |-> x.startTime, exit |-> now]
    /\ UNCHANGED <<tools, now, exec, registered, cv>>

AwaitNext ==
    \/ Tick
    \/ Deliver
    \/ \E tool \in {d \in ToolDefinitions : d.name = "a"} : RegisterTool(tool)
    \/ \E input \in RawInputs : ExecuteTool("c1", "a", input, Undef)
    \/ \E outcome \in FnOutcomes \cup BusinessOutcomes : HandlerSettles("c1", outcome)
    \/ ExecuteToolResumes("c1")
    \/ ProcessStart("p1")
    \/ \E validation \in HookOutcomes : ValidateRequestEnds("p1", validation)
    \/ \E handled \in HandleOutcomes : HandleRequestSettles("p1", handled)
    \/ ProcessResumes("p1")

\* the event loop runs the code after an await whose promise has settled, and
\* the caller takes every result that is returned
AwaitSpec ==
    /\ Init
    /\ [][AwaitNext]_vars
    /\ WF_vars(Deliver)
    /\ SF_vars(ExecuteToolResumes("c1"))
    /\ SF_vars(ProcessResumes("p1"))

(***************************************************************************)
(* The converters and the validator, over every schema and datum.          *)
(***************************************************************************)
ConvInit == AgentInit /\ CvInit

ConvNext == RegisterToolsSchema \/ GetJsonSchema \/ ValidateData

ConvSpec == ConvInit /\ [][ConvNext]_vars

(***************************************************************************)
(* utils/errors: the errors callers create.                                *)
(***************************************************************************)
\* new SubAgentError(...args)
NewSubAgentError(args) ==
    /\ last = NoResult
    /\ last' = [op |-> "SubAgentError", via |-> "constructor", args |-> args,
                error |-> SubAgentError_constructor(args)]
    /\ UNCHANGED <<tools, now, exec, proc, registered, cv>>

\* validationError(message, details)
ValidationError(message, details) ==
    /\ last = NoResult
    /\ last' = [op |-> "SubAgentError", via |-> "validationError",
                args |-> <<message, details>>,
                error |-> validationError(message, details)]
    /\ UNCHANGED <<tools, now, exec, proc, registered, cv>>

\* processingError(...args)
ProcessingError(args) ==
    /\ last = NoResult
    /\ last' = [op |-> "SubAgentError", via |-> "processingError", args |-> args,
                error |-> processingError(args)]
    /\ UNCHANGED <<tools, now, exec, proc, registered, cv>>

\* timeoutError(operation, timeoutMs)
TimeoutError(operation, timeoutMs) ==
    /\ last = NoResult
    /\ last' = [op |-> "SubAgentError", via |-> "timeoutError",
                args |-> <<operation, timeoutMs>>,
                error |-> timeoutError(operation, timeoutMs)]
    /\ UNCHANGED <<tools, now, exec, proc, registered, cv>>

ErrNext ==
    \/ Deliver
    \/ \E args \in ConstructorArgs : NewSubAgentError(args)
    \/ \E message \in Messages, details \in Details : ValidationError(message, details)
    \/ \E message \in Messages, details \in Details :
          \/ ProcessingError(<<message>>)
          \/ ProcessingError(<<message, details>>)
          \/ \E retryable \in BOOLEAN : ProcessingError(<<message, details, retryable>>)
    \/ \E operation \in {"fetch", "scan"}, timeoutMs \in {1, 30000} :
          TimeoutError(operation, timeoutMs)

ErrSpec == Init /\ [][ErrNext]_vars

(***************************************************************************)
(* Properties.                                                             *)
(***************************************************************************)
IsTrue(v) == v = Bool(TRUE)
IsFalse(v) == v = Bool(FALSE)

\* C1: the response process() returns never carries both a results payload and an
\* error: with success false, results is null and error is a message; with
\* success true, there is no error.
C1_ExclusiveOutcome ==
    last.op = "process" /\ ~last.threw =>
        LET r == last.value
        IN  /\ IsTrue(Get(r, "success")) \/ IsFalse(Get(r, "success"))
            /\ IsFalse(Get(r, "success")) =>
                  Get(r, "results") = Null /\ Get(r, "error").t = "str"
            /\ IsTrue(Get(r, "success")) => ~Has(r, "error")

\* a failed response after handleRequest threw
C1_Witness ==
    /\ last.op = "process"
    /\ last.cause = "handleRequest"
    /\ IsFalse(Get(last.value, "success"))

Rank(state) ==
    CASE state = "Received" -> 1
      [] state = "Validating" -> 2
      [] state = "Executing" -> 3
      [] state = "Completed" -> 4
      [] state = "Failed" -> 4

Terminal(state) == state \in {"Completed", "Failed"}

\* C2: a process() call goes Received, Validating, Executing, then Completed or
\* Failed, in that order, never back, with at most one terminal state, which is
\* its last; when validateRequest rejects, handleRequest is not invoked and the
\* call ends Failed.
C2_Lifecycle ==
    \A p \in ProcCalls :
        proc[p] # Idle =>
            LET h == proc[p].history
            IN  /\ Len(h) >= 2 /\ h[1] = "Received" /\ h[2] = "Validating"
                /\ h[Len(h)] = proc[p].pc
                /\ \A i \in 1..(Len(h) - 1) :
                      /\ Rank(h[i]) < Rank(h[i + 1])
                      /\ ~Terminal(h[i])
                /\ proc[p].pc = "Completed" => h = <<"Received", "Validating", "Executing", "Completed">>
                /\ (\E i \in 1..Len(h) : h[i] = "Executing") <=> proc[p].handled = 1
                /\ proc[p].handled \in {0, 1}
                /\ proc[p].rejected => proc[p].handled = 0 /\ proc[p].pc = "Failed"

\* a call that validateRequest rejected has ended Failed without handleRequest
C2_Witness ==
    \E p \in ProcCalls :
        /\ proc[p] # Idle
        /\ proc[p].rejected
        /\ proc[p].history = <<"Received", "Validating", "Failed">>
        /\ proc[p].handled = 0

\* C3: executeTool with a name that is not registered throws nothing, invokes no
\* handler and returns success false with an error that contains the name.
C3_UnknownTool ==
    last.op = "executeTool" /\ registered[last.toolName] = Undef =>
        /\ ~last.threw
        /\ last.ran = NoHandler /\ ~last.business
        /\ IsFalse(Get(last.value, "success"))
        /\ Get(last.value, "error").t = "str"
        /\ \E i \in 1..Len(Get(last.value, "error").s) :
              Get(last.value, "error").s[i] = last.toolName

\* an unregistered name is asked for while another tool is registered
C3_Witness ==
    /\ last.op = "executeTool"
    /\ registered[last.toolName] = Undef
    /\ Len(tools) > 0

\* C4: the registry holds exactly one entry per registered name, holding the
\* definition registered last; an executeTool call runs the handler of the
\* definition that was registered last when the call started; registerTool does
\* not fail.
C4_LastRegistrationWins ==
    /\ \A i, j \in 1..Len(tools) : tools[i].key = tools[j].key => i = j
    /\ {tools[i].key : i \in 1..Len(tools)} = {n \in ToolNames : registered[n] # Undef}
    /\ \A n \in ToolNames : MapGet(tools, n) = registered[n]
    /\ \A c \in Calls : exec[c] # Idle => exec[c].tool = exec[c].expected
    /\ last.op = "executeTool" /\ last.ran # NoHandler => last.ran = last.expected.handler
    /\ last.op = "registerTool" => ~last.threw

\* two calls of one name are in flight, one begun before the name was registered
\* again and one after: the later one runs the later definition
C4_Witness ==
    /\ exec["c1"] # Idle /\ exec["c2"] # Idle
    /\ exec["c1"].toolName = exec["c2"].toolName
    /\ exec["c1"].tool # exec["c2"].tool
    /\ exec["c2"].tool = registered[exec["c2"].toolName]
    /\ Len(tools) = 1

\* C5: when the handler of a registered tool throws under executeTool, nothing
\* escapes and the envelope has success false, the message, and metadata.code
\* equal to the classified kind of what was thrown.
C5_ThrownKindInEnvelope ==
    last.op = "executeTool" /\ last.thrown.threw =>
        /\ ~last.threw
        /\ IsFalse(Get(last.value, "success"))
        /\ Get(last.value, "error") = formatError(last.thrown.value).message
        /\ Get(Get(last.value, "metadata"), "code") = Str(formatError(last.thrown.value).code)

\* C6: every return path of executeTool gives metadata.processingTimeMs, the clock
\* difference between entry and return, which is not negative.
C6_TimingOnEveryPath ==
    last.op = "executeTool" /\ ~last.threw =>
        /\ last.exit - last.entry >= 0
        /\ Get(Get(last.value, "metadata"), "processingTimeMs") = Num(last.exit - last.entry)

\* the path of an issue, joined by dots
PathText(e) == JoinTokens([i \in 1..Len(e.path) |-> <<e.path[i]>>], ".")

\* the error is a prefix and then the messages of the issues in order, each with
\* or without its path, joined by ", "
MadeOfMessages(error, issues) ==
    /\ error.t = "str"
    /\ \E prefix \in {"Invalid input: ", "Validation failed: "}, withPath \in BOOLEAN :
          error.s = <<prefix>> \o
              JoinTokens([i \in 1..Len(issues) |->
                             (IF withPath THEN PathText(issues[i]) \o <<": ">> ELSE <<>>)
                             \o issues[i].message], ", ")

\* the schema a result's raw input was to satisfy, when the operation validates
ValidatedAgainst ==
    CASE last.op = "executeTool" /\ last.expected # Undef -> <<last.expected.inputSchema>>
      [] last.op = "handler" /\ last.tool.handler.kind = "created" -> <<last.tool.inputSchema>>
      [] last.op = "BaseTool.execute" -> <<ToolInputSchema>>
      [] OTHER -> <<>>

\* C7: when the raw input fails validation against the tool's input schema, the
\* business handler is not called, nothing is thrown, and the result has success
\* false and an error made of the joined validation messages; for executeTool,
\* BaseTool.execute and a handler built by createToolHandler.
C7_InvalidInputIsLocal ==
    \A i \in 1..Len(ValidatedAgainst) :
        LET parsed == safeParse(ValidatedAgainst[i], last.raw)
        IN  ~parsed.success =>
                /\ ~last.threw
                /\ ~last.business
                /\ last.op = "executeTool" => last.ran = NoHandler
                /\ IsFalse(Get(last.value, "success"))
                /\ MadeOfMessages(Get(last.value, "error"), parsed.issues)

\* executeTool has turned down an input with two issues
C7_Witness ==
    /\ last.op = "executeTool"
    /\ last.expected # Undef
    /\ Len(safeParse(last.expected.inputSchema, last.raw).issues) = 2
    /\ IsFalse(Get(last.value, "success"))

\* C8: checkHealth does not throw what runHealthChecks threw: it returns healthy
\* false with a non-empty errors list when the hook threw and healthy true with
\* errors undefined when it did not; healthy is true exactly when errors is
\* undefined, and errors is never an empty list.
C8_HealthFoldsErrors ==
    last.op = "checkHealth" =>
        LET healthy == Get(last.value, "healthy")
            errors == Get(last.value, "errors")
        IN  /\ ~last.threw
            /\ last.hook.threw =>
                  IsFalse(healthy) /\ errors.t = "arr" /\ Len(errors.items) > 0
            /\ ~last.hook.threw => IsTrue(healthy) /\ errors = Undef
            /\ IsTrue(healthy) <=> errors = Undef
            /\ errors # Arr(<<>>)

\* checkHealth has returned after the hook threw
C8_Witness ==
    /\ last.op = "checkHealth"
    /\ last.hook.threw
    /\ IsFalse(Get(last.value, "healthy"))

\* C9: when validation of a datum against a schema succeeds, the JSON schema that
\* convertZodDef makes of the schema accepts the datum.
C9_ConversionSound ==
    (cv.result # NotRun /\ cv.doc # NotRun /\ cv.result.success) => Accepts(cv.doc, cv.data)

\* the field names of a shape that are not optional, in the shape's order
RECURSIVE NamesRequired(_)
NamesRequired(shape) ==
    IF Len(shape) = 0 THEN <<>>
    ELSE (IF safeParse(shape[1].value, Undef).success THEN <<>> ELSE <<Str(shape[1].key)>>)
         \o NamesRequired(Tail(shape))

ObjectDocument(doc, shape, convert(_)) ==
    /\ Get(doc, "type") = Str("object")
    /\ Get(doc, "properties") =
          Obj([i \in 1..Len(shape) |->
                  Prop(shape[i].key,
                       IF shape[i].value.typeName = "ZodOptional"
                       THEN convert(shape[i].value.innerType)
                       ELSE convert(shape[i].value))])
    /\ IF NamesRequired(shape) = <<>>
       THEN ~Has(doc, "required")
       ELSE Get(doc, "required") = Arr(NamesRequired(shape))

\* C10: an object schema converts to type "object", a property per field (an
\* optional field as its inner schema) and required listing exactly the fields
\* that are not optional, in order; with no required field the document has no
\* required key.  For both converters.
C10_ObjectConversion ==
    cv.schema.typeName = "ZodObject" =>
        /\ cv.doc # NotRun => ObjectDocument(cv.doc, cv.schema.shape, convertZodDef)
        /\ cv.baseDoc # NotRun =>
              ObjectDocument(cv.baseDoc, cv.schema.shape, BaseTool_zodToJsonSchema)

\* the text of a tool-call document's only content item, undefined when the
\* document is not one text item
TextOf(doc) ==
    LET content == Get(doc, "content")
    IN  IF content.t = "arr" /\ Len(content.items) = 1
           /\ Get(content.items[1], "type") = Str("text")
        THEN Get(content.items[1], "text")
        ELSE Undef

\* C11: a tool call at the callback registerTools installs never throws and returns
\* a document with exactly one text item: when the handler returned success true,
\* the text is the serialized payload and there is no isError; when it returned
\* success false or threw, the text is a serialized {error: message} and isError
\* is true.
C11_ToolCallDocument ==
    last.op = "toolCall" =>
        LET text == TextOf(last.value)
            succeeded == ~last.handled.threw /\ IsTrue(Get(last.handled.value, "success"))
        IN  /\ ~last.threw
            /\ text.t = "str"
            /\ succeeded =>
                  /\ text = JSON_stringify(Get(last.handled.value, "data"))
                  /\ ~Has(last.value, "isError")
            /\ ~succeeded =>
                  /\ text.json.t = "obj"
                  /\ Get(text.json, "error").t = "str"
                  /\ IsTrue(Get(last.value, "isError"))

\* the kinds the taxonomy marks retryable by default, and those it marks not
RetryableKinds ==
    {TIMEOUT, "RATE_LIMITED", "RESOURCE_EXHAUSTED", "CONNECTION_FAILED", "PROTOCOL_ERROR"}
NotRetryableKinds ==
    {INVALID_INPUT, "INVALID_CONFIG", "NOT_FOUND", "ACCESS_DENIED", UNKNOWN}

\* C12: an error created with no explicit retryable argument (by the constructor,
\* or by a helper that takes none) is retryable when its kind is Timeout,
\* RateLimited, ResourceExhausted, ConnectionFailed or ProtocolError, and is not
\* when its kind is InvalidInput, InvalidConfig, NotFound, AccessDenied or Unknown.
C12_DefaultRetryable ==
    (/\ last.op = "SubAgentError"
     /\ \/ last.via = "constructor" /\ Len(last.args) < 4
        \/ last.via \in {"validationError", "timeoutError"}) =>
        /\ last.error.code \in RetryableKinds => last.error.retryable
        /\ last.error.code \in NotRetryableKinds => ~last.error.retryable

\* an outcome whose payload (under payloadKey) is there exactly when success is
\* true and whose error message is there exactly when success is false
PayloadXorError(r, payloadKey) ==
    /\ IsTrue(Get(r, "success")) \/ IsFalse(Get(r, "success"))
    /\ Get(r, payloadKey) # Undef <=> IsTrue(Get(r, "success"))
    /\ Get(r, "error").t = "str" <=> IsFalse(Get(r, "success"))

\* C13: the ToolResult of BaseTool.execute and of a createToolHandler-built
\* handler, and the envelope executeTool builds from the ToolResult the registered
\* handler returned, have the payload present iff success is true and the error
\* message present iff success is false.
C13_PayloadIffSuccess ==
    /\ last.op = "BaseTool.execute" => PayloadXorError(last.value, "data")
    /\ last.op = "handler" /\ last.tool.handler.kind = "created" =>
          PayloadXorError(last.value, "data")
    /\ last.op = "executeTool" /\ last.path = "returned" =>
          PayloadXorError(last.value, "results")

\* C15: when handleRequest returns the envelope of executeTool and the executed
\* tool failed (not found, invalid input, handler threw or returned a failure),
\* the response of process() has success false.
C15_ToolFailureFailsRequest ==
    (/\ last.op = "process"
     /\ "envelope" \in DOMAIN last
     /\ IsFalse(Get(last.envelope, "success"))) =>
        IsFalse(Get(last.value, "success"))

\* C16: with executeTool calls in flight and registerTool calls interleaved, a
\* call runs the handler of the definition that was registered under its name when
\* the call started, and its result is the one that handler's end gives, whatever
\* was registered meanwhile; the handler's context carries the requestId of its
\* own call (the one given, else one generated for the call), and generated ids
\* of two calls in flight differ.
C16_InvocationIsolation ==
    /\ \A c \in Calls : exec[c] # Idle =>
          /\ exec[c].tool = exec[c].expected
          /\ exec[c].context.requestId =
                (IF exec[c].given = Undef THEN Txt(<<"uuid-", c>>) ELSE exec[c].given)
    /\ \A c, d \in Calls :
          (c # d /\ exec[c] # Idle /\ exec[d] # Idle
             /\ exec[c].given = Undef /\ exec[d].given = Undef) =>
          exec[c].context.requestId # exec[d].context.requestId
    /\ last.op = "executeTool" /\ last.ran # NoHandler =>
          /\ last.ran = last.expected.handler
          /\ last.value =
                executeTool_settle(
                    tool_handler(last.expected,
                                 validateSchema(last.expected.inputSchema, last.raw).data,
                                 last.thrown).outcome,
                    last.entry, last.exit).value

\* a call has returned the result of the handler it started with although its
\* name was registered with another handler meanwhile, and a second call of the
\* name, begun after that registration, is in flight with an id of its own
C16_Witness ==
    /\ last.op = "executeTool"
    /\ last.ran # NoHandler
    /\ registered[last.toolName].handler # last.ran
    /\ \E c \in Calls :
          /\ exec[c] # Idle
          /\ exec[c].toolName = last.toolName
          /\ exec[c].tool = registered[last.toolName]
          /\ exec[c].given = Undef

\* C17: for every schema, BaseTool.getJsonSchema and the converter registerTools
\* uses (zodToJsonSchema over convertZodDef) give the same JSON-schema document.
C17_ConvertersAgree ==
    (cv.doc # NotRun /\ cv.baseDoc # NotRun) => cv.doc = cv.baseDoc

\* a response that followed a handler was produced with the handler's promise
\* settled, from what it settled to
AfterHandler ==
    /\ last.op = "executeTool" /\ last.ran # NoHandler =>
          /\ last.awaited.state # "pending"
          /\ last.value = executeTool_settle(last.awaited, last.entry, last.exit).value
    /\ last.op = "process" /\ "awaited" \in DOMAIN last =>
          /\ last.awaited.state # "pending"
          /\ last.value = process_afterHandle(last.awaited, last.entry, last.exit).done.value

\* C14: once executeTool or process has called a handler, it returns a response
\* only after the handler has ended (returned or thrown), however long that takes;
\* and once the handler has ended, the response is eventually returned.
C14_AwaitsHandler ==
    /\ []AfterHandler
    /\ (exec["c1"].pc = "handler" /\ exec["c1"].promise.state # "pending")
          ~> (last.op = "executeTool" /\ last.call = "c1" /\ last.ran # NoHandler)
    /\ (proc["p1"].pc = "Executing" /\ proc["p1"].promise.state # "pending")
          ~> (last.op = "process" /\ last.call = "p1" /\ "awaited" \in DOMAIN last)

\* executeTool has returned after its handler ended, the clock having advanced
\* while the call was in flight
C14_Witness ==
    /\ last.op = "executeTool"
    /\ last.ran # NoHandler
    /\ last.awaited.state # "pending"
    /\ last.exit > last.entry

====
